---- MODULE Spec2Model ----
(***************************************************************************)
(* FinSight query-time RAG pipeline: the two chat endpoints                *)
(* (backend/app/api/endpoints.py) and the shared RAGEngine                 *)
(* (backend/app/services/rag_engine.py).                                   *)
(*                                                                         *)
(* Every request is an asyncio task.  A task runs without interruption     *)
(* from one suspension point (an `await` on an external service, or a      *)
(* `yield` of the async generator) to the next, so every action below is   *)
(* one such uninterrupted stretch of code.                                 *)
(***************************************************************************)
EXTENDS Integers, Sequences, FiniteSets, TLC

(* ------------------------------ bounds -------------------------------- *)
\* number of requests in flight in the concurrent specification
NumReqs == 2
\* most fragments one generation produces
MaxFrags == 2
\* most matches the store holds for one namespace
MaxMatches == 2
\* most turns of a chat history
MaxHist == 2

(* --------------------------- program constants ------------------------ *)
\* Settings.top_k_results
top_k_results == 5

None == 0

AAPL == <<"A", "A", "P", "L">>
MSFT == <<"M", "S", "F", "T">>
GOOGL == <<"G", "O", "O", "G", "L">>
\* Settings.supported_tickers
supported_tickers == {AAPL, MSFT, GOOGL}

(* str.upper(), character by character over the letters the inputs use *)
UpperMap ==
    ("a" :> "A") @@ ("p" :> "P") @@ ("l" :> "L") @@ ("m" :> "M") @@
    ("s" :> "S") @@ ("f" :> "F") @@ ("t" :> "T") @@ ("z" :> "Z")

UpperChar(c) == IF c \in DOMAIN UpperMap THEN UpperMap[c] ELSE c

upper(s) == [i \in 1..Len(s) |-> UpperChar(s[i])]

(* ------------------------------ inputs -------------------------------- *)
\* tickers as the client may send them
TickerInputs ==
    { AAPL, <<"a", "a", "p", "l">>, <<"M", "s", "f", "t">>,
      <<"Z", "Z", "Z", "Z">>, <<"t", "s", "l", "a">> }

ConcTickerInputs == { <<"a", "a", "p", "l">>, <<"t", "s", "l", "a">> }

IsoTickerInputs == { <<"a", "a", "p", "l">>, <<"M", "s", "f", "t">> }

Paths == {"stream", "sync"}

\* a credential is a string: empty when the environment does not set it
KeyInputs == {"", "key"}

\* content of one generated chunk; "" is a chunk without text
FragInputs == {"", "a", "b"}

ConcFragInputs == {"a"}

\* full texts of a blocking completion, as the sequence of their fragments
TextInputs == { <<>>, <<"a">>, <<"a", "b">> }

ConcTextInputs == { <<"a">> }

IsoTextInputs == { <<"a">>, <<"a", "a">> }

\* the message of a request; "" is the empty query text
MessageInputs == {"", "q"}

\* one turn of the history: role and content ("" is also what msg.get("role", "")
\* gives for a turn without a role)
TurnInputs ==
    { [role |-> "user", content |-> "h1"], [role |-> "user", content |-> "h2"],
      [role |-> "assistant", content |-> "h1"], [role |-> "system", content |-> "h1"],
      [role |-> "", content |-> "h2"] }

HistoryInputs == UNION { [1..n -> TurnInputs] : n \in 0..MaxHist }

ConcHistoryInputs ==
    { << [role |-> "user", content |-> "h1"], [role |-> "system", content |-> "h1"],
         [role |-> "assistant", content |-> "h2"] >> }

(* --------------------------- the vector store ------------------------- *)
Min(a, b) == IF a < b THEN a ELSE b

\* what the index holds for a namespace, best score first; only the
\* namespaces of the supported tickers were ingested.  An id stands for the
\* md5 of "{ticker}-{section}-{chunk_index}"; the sections run_ingest.py
\* writes differ in header, year and text
SectionHeaders == << "Business Overview", "Risk Factors", "Financial Data", "Market Risk" >>
SectionYears == << "2023", "2024", "2022", "2021" >>
SectionTexts == << "text1", "text2", "text3", "text4" >>

Section(i) == ((i - 1) % Len(SectionHeaders)) + 1

Store(ns) ==
    IF ns \in supported_tickers
    THEN [i \in 1..MaxMatches |->
            [id |-> [ticker |-> ns, section |-> SectionHeaders[Section(i)],
                     chunk_index |-> i],
             score |-> 10 - i, namespace |-> ns,
             metadata |-> [text_content |-> SectionTexts[Section(i)],
                           section_header |-> SectionHeaders[Section(i)],
                           source_url |-> "url",
                           year |-> SectionYears[Section(i)]]]]
    ELSE <<>>

\* index.query(vector, namespace, top_k): the n best matches of the namespace
Query(ns, k, n) == SubSeq(Store(ns), 1, Min(n, Min(k, Len(Store(ns)))))

(* ------------------------------- state -------------------------------- *)
VARIABLES
    settings,     \* get_settings(): the cached Settings (the two credentials)
    rag_engine,   \* the module global _rag_engine: None or the engine
    engines,      \* the fields of every RAGEngine constructed so far
    built,        \* how many instances of each kind were constructed
    request,      \* the ChatRequest of every task: ticker and endpoint
    pc,           \* where every task is suspended
    status,       \* HTTP status of the response, None while there is none
    engine,       \* the engine a task holds (local rag_engine / self)
    obs,          \* the handle instances a task was handed by the getters
    calls,        \* external calls a task has made: embed, search, llm
    contexts,     \* a task's local `contexts`
    events,       \* the lines a task's generator has yielded, in order
    frags,        \* the chunks the language model has produced for a task
    gen,          \* the language model's stream of a task
    cancelled,    \* the caller has closed the stream of a task
    result,       \* the ChatResponse of a synchronous task
    namespace,    \* the namespace argument of the index.query a task issued
    matches,      \* results["matches"] of a task's index.query
    messages,     \* a task's local `messages`, what it hands to the model
    trace         \* the external calls, their returns and the first yield of a
                  \* task, in the order they happened

vars == << settings, rag_engine, engines, built, request, pc, status, engine,
           obs, calls, contexts, events, frags, gen, cancelled, result,
           namespace, matches, messages, trace >>

Reqs == DOMAIN pc

Kinds == {"engine", "pinecone_client", "index", "embeddings", "llm"}

\* RAGEngine.__init__: every handle starts as None
NewEngine == [pinecone_client |-> None, index |-> None, embeddings |-> None, llm |-> None]

NoObs == [engine |-> None, pinecone_client |-> None, index |-> None,
          embeddings |-> None, llm |-> None]

NoResult == [response |-> <<>>, contexts |-> <<>>, ticker |-> <<>>]

\* one line of the stream: json.dumps({"type": .., "data": ..}); `data` is the
\* array of a contexts line, `text` the string of a token line
Event(type, data, text) == [type |-> type, data |-> data, text |-> text]

ContextsEvent(ctxs) == Event("contexts", ctxs, "")
TokenEvent(c) == Event("token", <<>>, c)
DoneEvent == Event("done", <<>>, "")

InitWith(reqs, tickers, keys, msgs, histories) ==
    /\ settings \in [openai_api_key : keys, pinecone_api_key : keys]
    /\ rag_engine = None
    /\ engines = <<>>
    /\ built = [k \in Kinds |-> 0]
    /\ request \in [reqs -> [ticker : tickers, path : Paths, message : msgs,
                              history : histories]]
    /\ namespace = [r \in reqs |-> <<>>]
    /\ matches = [r \in reqs |-> <<>>]
    /\ messages = [r \in reqs |-> <<>>]
    /\ trace = [r \in reqs |-> <<>>]
    /\ pc = [r \in reqs |-> "start"]
    /\ status = [r \in reqs |-> None]
    /\ engine = [r \in reqs |-> None]
    /\ obs = [r \in reqs |-> NoObs]
    /\ calls = [r \in reqs |-> [embed |-> 0, search |-> 0, llm |-> 0]]
    /\ contexts = [r \in reqs |-> <<>>]
    /\ events = [r \in reqs |-> <<>>]
    /\ frags = [r \in reqs |-> <<>>]
    /\ gen = [r \in reqs |-> "idle"]
    /\ cancelled = [r \in reqs |-> FALSE]
    /\ result = [r \in reqs |-> NoResult]

Init == InitWith({1}, TickerInputs, KeyInputs, MessageInputs, HistoryInputs)

InitConc ==
    InitWith(1..NumReqs, ConcTickerInputs, KeyInputs, MessageInputs, ConcHistoryInputs)

InitIso == InitWith(1..NumReqs, IsoTickerInputs, {"key"}, {"q"}, ConcHistoryInputs)

(* ------------------------- lazy construction -------------------------- *)
Max(a, b) == IF a < b THEN b ELSE a

\* get_rag_engine(): g is the global, n the number of engines constructed so
\* far; the value is the engine returned (n + 1 is a newly constructed one)
get_rag_engine(g, n) == IF g = None THEN n + 1 ELSE g

\* MUTANT of _get_embeddings: the `is None` guard is missing
_get_embeddings_unguarded(cur, n) == n + 1

\* the four lazy getters: cur is the field, n the number of instances of the
\* kind constructed so far; the value is the handle returned
_get_pinecone_client(cur, n) == IF cur = None THEN n + 1 ELSE cur

_get_index(cur, n) == IF cur = None THEN n + 1 ELSE cur

_get_embeddings(cur, n) == IF cur = None THEN n + 1 ELSE cur

_get_llm(cur, n) == IF cur = None THEN n + 1 ELSE cur

(* ---------------------------- pure helpers ---------------------------- *)
\* MUTANT of ValidateRequest: the allow-list check is missing
ValidateKeysOnly(t, st) ==
    IF st.openai_api_key = "" THEN 500
    ELSE IF st.pinecone_api_key = "" THEN 500
    ELSE None

\* MUTANT of ValidateRequest: the credentials are checked before the ticker
ValidateKeysFirst(t, st) ==
    IF st.openai_api_key = "" THEN 500
    ELSE IF st.pinecone_api_key = "" THEN 500
    ELSE IF upper(t) \notin supported_tickers THEN 400
    ELSE None

\* the checks both chat handlers make before anything else: the status of
\* the HTTPException raised, None when the request passes
ValidateRequest(t, st) ==
    IF upper(t) \notin supported_tickers THEN 400
    ELSE IF st.openai_api_key = "" THEN 500
    ELSE IF st.pinecone_api_key = "" THEN 500
    ELSE None

\* MUTANT of ChatRequestValid: `message` has no min_length
ChatRequestAny(req) == TRUE

\* ChatRequest: `message` has min_length=1, so a body whose message is empty is
\* no ChatRequest and the handler is not run
ChatRequestValid(req) == req.message # ""

\* MUTANT of TaskRequest: the arguments are kept in one slot of the shared
\* engine, which holds those of the latest request
TaskRequestShared(r) ==
    request[CHOOSE q \in DOMAIN request : \A p \in DOMAIN request : q >= p]

\* the arguments a task's coroutine was called with: they live in its own frame
TaskRequest(r) == request[r]

\* MUTANT of Namespace: the namespace is a fixed one
NamespaceFixed(ticker) == AAPL

\* namespace=ticker.upper() of index.query
Namespace(ticker) == upper(ticker)

\* MUTANT of FormatResults: the contexts are collected in reverse order
FormatResultsReversed(found) ==
    [i \in 1..Len(found) |->
        LET m == found[Len(found) + 1 - i] IN
        [id |-> m.id, score |-> m.score,
         text_content |-> m.metadata.text_content,
         section_header |-> m.metadata.section_header,
         source_url |-> m.metadata.source_url,
         year |-> m.metadata.year]]

\* retrieve_context, "Format results": one context per match, in order
FormatMatch(m) ==
    [id |-> m.id, score |-> m.score,
     text_content |-> m.metadata.text_content,
     section_header |-> m.metadata.section_header,
     source_url |-> m.metadata.source_url,
     year |-> m.metadata.year]

FormatResults(found) == [i \in 1..Len(found) |-> FormatMatch(found[i])]

\* langchain messages; the content of a system message is the prompt, kept as
\* its parts: the ticker of the first line and the context blocks joined by
\* blank lines
Message(type, content, ticker, blocks) ==
    [type |-> type, content |-> content, ticker |-> ticker, blocks |-> blocks]

HumanMessage(content) == Message("human", content, <<>>, <<>>)
AIMessage(content) == Message("ai", content, <<>>, <<>>)
SystemMessage(prompt) == Message("system", "", prompt.ticker, prompt.blocks)

\* "[Source: {section_header} | Year: {year}]\n{text_content}" of one context
ContextBlock(ctx) ==
    [section_header |-> ctx.section_header, year |-> ctx.year,
     text_content |-> ctx.text_content]

\* MUTANT of _build_system_prompt: the blocks are joined in reverse order
_build_system_prompt_reversed(ctxs, ticker) ==
    [ticker |-> ticker,
     blocks |-> [i \in 1..Len(ctxs) |-> ContextBlock(ctxs[Len(ctxs) + 1 - i])]]

\* _build_system_prompt: the blocks of the contexts in list order
_build_system_prompt(ctxs, ticker) ==
    [ticker |-> ticker, blocks |-> [i \in 1..Len(ctxs) |-> ContextBlock(ctxs[i])]]

\* MUTANT of _format_chat_history: `else` in place of `elif role == "assistant"`
RECURSIVE _format_chat_history_else(_)
_format_chat_history_else(history) ==
    IF history = <<>> THEN <<>>
    ELSE LET msg == Head(history)
             rest == _format_chat_history_else(Tail(history))
         IN
         IF msg.role = "user" THEN << HumanMessage(msg.content) >> \o rest
         ELSE << AIMessage(msg.content) >> \o rest

\* _format_chat_history: the loop over the turns
RECURSIVE _format_chat_history(_)
_format_chat_history(history) ==
    IF history = <<>> THEN <<>>
    ELSE LET msg == Head(history)
             rest == _format_chat_history(Tail(history))
         IN
         IF msg.role = "user" THEN << HumanMessage(msg.content) >> \o rest
         ELSE IF msg.role = "assistant" THEN << AIMessage(msg.content) >> \o rest
         ELSE rest

\* "Build messages" of generate_response_stream
StreamMessages(ctxs, ticker, history, query) ==
    << SystemMessage(_build_system_prompt(ctxs, ticker)) >>
        \o _format_chat_history(history) \o << HumanMessage(query) >>

\* MUTANT of SyncMessages: the history is not added
SyncMessagesNoHistory(ctxs, ticker, history, query) ==
    << SystemMessage(_build_system_prompt(ctxs, ticker)) >> \o << HumanMessage(query) >>

\* "Build messages" of generate_response
SyncMessages(ctxs, ticker, history, query) ==
    << SystemMessage(_build_system_prompt(ctxs, ticker)) >>
        \o _format_chat_history(history) \o << HumanMessage(query) >>

\* MUTANT of Forwarded: the `if chunk.content:` filter is missing
ForwardedAlways(c) == TRUE

\* `if chunk.content:` a chunk is forwarded when its content is not empty
Forwarded(c) == c # ""

\* MUTANT of OnCancel: the generator swallows the exception and goes on
OnCancelIgnored(p) == p

\* the generator has no handler around its suspension points: closing it
\* raises GeneratorExit (CancelledError) there and the generator is over
OnCancel(p) == "cancelled"

\* the suspension points of a streaming task
StreamPoints == {"created", "await_embed", "yield_contexts", "await_chunk",
                 "yield_token", "yield_done"}

(* ------------------------------ actions ------------------------------- *)
\* embed_query up to its await: _get_embeddings(), then aembed_query is called
CallEmbed(r, e) ==
    LET h == _get_embeddings(engines[e].embeddings, built.embeddings) IN
    /\ engines' = [engines EXCEPT ![e].embeddings = h]
    /\ built' = [built EXCEPT !.embeddings = Max(@, h)]
    /\ obs' = [obs EXCEPT ![r].embeddings = h]
    /\ calls' = [calls EXCEPT ![r].embed = @ + 1]
    /\ trace' = [trace EXCEPT ![r] = Append(@, "embed")]
    /\ pc' = [pc EXCEPT ![r] = "await_embed"]

\* the body of the request is no ChatRequest: FastAPI answers 422 and neither
\* handler is run
RejectInvalid(r) ==
    /\ pc[r] = "start"
    /\ ~ChatRequestValid(request[r])
    /\ status' = [status EXCEPT ![r] = 422]
    /\ pc' = [pc EXCEPT ![r] = "invalid"]
    /\ UNCHANGED << settings, rag_engine, engines, built, request, engine, obs,
                    calls, contexts, events, frags, gen, cancelled, result,
                    namespace, matches, messages, trace >>

\* POST /chat: validate, take the engine, hand the not yet started generator
\* to a StreamingResponse (status 200)
chat_stream(r) ==
    /\ pc[r] = "start"
    /\ ChatRequestValid(request[r])
    /\ request[r].path = "stream"
    /\ LET code == ValidateRequest(request[r].ticker, settings) IN
       IF code # None
       THEN /\ status' = [status EXCEPT ![r] = code]
            /\ pc' = [pc EXCEPT ![r] = "rejected"]
            /\ UNCHANGED << rag_engine, engines, built, engine, obs >>
       ELSE LET e == get_rag_engine(rag_engine, Len(engines)) IN
            /\ rag_engine' = e
            /\ engines' = IF e > Len(engines) THEN Append(engines, NewEngine) ELSE engines
            /\ built' = [built EXCEPT !.engine = Len(engines')]
            /\ engine' = [engine EXCEPT ![r] = e]
            /\ obs' = [obs EXCEPT ![r].engine = e]
            /\ status' = [status EXCEPT ![r] = 200]
            /\ pc' = [pc EXCEPT ![r] = "created"]
    /\ UNCHANGED << settings, request, calls, contexts, events, frags, gen,
                    cancelled, result,
                    namespace, matches, messages, trace >>

\* the response iterates the generator for the first time: it runs up to the
\* await in embed_query
StartStream(r) ==
    /\ pc[r] = "created"
    /\ CallEmbed(r, engine[r])
    /\ UNCHANGED << settings, rag_engine, request, status, engine, contexts,
                    events, frags, gen, cancelled, result,
                    namespace, matches, messages >>

\* POST /chat/sync: validate, take the engine, run generate_response up to
\* the await in embed_query
chat_sync(r) ==
    /\ pc[r] = "start"
    /\ ChatRequestValid(request[r])
    /\ request[r].path = "sync"
    /\ LET code == ValidateRequest(request[r].ticker, settings) IN
       IF code # None
       THEN /\ status' = [status EXCEPT ![r] = code]
            /\ pc' = [pc EXCEPT ![r] = "rejected"]
            /\ UNCHANGED << rag_engine, engines, built, engine, obs, calls, trace >>
       ELSE LET e == get_rag_engine(rag_engine, Len(engines))
                es == IF e > Len(engines) THEN Append(engines, NewEngine) ELSE engines
                h == _get_embeddings(es[e].embeddings, built.embeddings)
            IN
            /\ rag_engine' = e
            /\ engines' = [es EXCEPT ![e].embeddings = h]
            /\ built' = [built EXCEPT !.engine = Len(es), !.embeddings = Max(@, h)]
            /\ engine' = [engine EXCEPT ![r] = e]
            /\ obs' = [obs EXCEPT ![r].embeddings = h, ![r].engine = e]
            /\ calls' = [calls EXCEPT ![r].embed = @ + 1]
            /\ trace' = [trace EXCEPT ![r] = Append(@, "embed")]
            /\ pc' = [pc EXCEPT ![r] = "await_embed"]
            /\ UNCHANGED status
    /\ UNCHANGED << settings, request, contexts, events, frags, gen, cancelled, result,
                    namespace, matches, messages >>

\* MUTANT of EmbedFails: the embedding is asked for again when it fails
EmbedRetried(r) ==
    /\ pc[r] = "await_embed"
    /\ calls' = [calls EXCEPT ![r].embed = @ + 1]
    /\ trace' = [trace EXCEPT ![r] = Append(@, "embed")]
    /\ UNCHANGED << settings, rag_engine, engines, built, request, pc, status, engine,
                    obs, contexts, events, frags, gen, cancelled, result,
                    namespace, matches, messages >>

\* aembed_query raises: nothing catches it.  The synchronous handler ends
\* with an unhandled exception (500); the stream was already started
EmbedFails(r) ==
    /\ pc[r] = "await_embed"
    /\ pc' = [pc EXCEPT ![r] = "failed"]
    /\ status' = [status EXCEPT ![r] = IF request[r].path = "sync" THEN 500 ELSE @]
    /\ UNCHANGED << settings, rag_engine, engines, built, request, engine, obs,
                    calls, contexts, events, frags, gen, cancelled, result,
                    namespace, matches, messages, trace >>

\* the embedding arrived; _get_index() constructs the client and then fails
\* to open the index (kind = "index"), or index.query raises (kind = "query")
SearchFails(r, kind) ==
    /\ pc[r] = "await_embed"
    /\ LET e == engine[r]
           fresh == engines[e].index = None
           client == IF fresh
                     THEN _get_pinecone_client(engines[e].pinecone_client,
                                               built.pinecone_client)
                     ELSE engines[e].pinecone_client
           idx == IF kind = "index" THEN None
                  ELSE _get_index(engines[e].index, built.index)
       IN
       /\ kind = "index" => fresh
       /\ engines' = [engines EXCEPT ![e].pinecone_client = client, ![e].index = idx]
       /\ built' = [built EXCEPT !.pinecone_client = Max(@, client),
                                 !.index = Max(@, idx)]
       /\ obs' = [obs EXCEPT ![r].pinecone_client = IF fresh THEN client ELSE @,
                             ![r].index = idx]
       /\ calls' = [calls EXCEPT ![r].search = IF kind = "query" THEN @ + 1 ELSE @]
    /\ namespace' = [namespace EXCEPT ![r] =
                        IF kind = "query"
                        THEN Namespace(upper(TaskRequest(r).ticker)) ELSE @]
    /\ trace' = [trace EXCEPT ![r] =
                    IF kind = "query" THEN @ \o << "embed_ok", "search" >>
                    ELSE Append(@, "embed_ok")]
    /\ pc' = [pc EXCEPT ![r] = "failed"]
    /\ status' = [status EXCEPT ![r] = IF request[r].path = "sync" THEN 500 ELSE @]
    /\ UNCHANGED << settings, rag_engine, request, engine, contexts, events,
                    frags, gen, cancelled, result, matches, messages >>

\* the rest of retrieve_context once the embedding arrived: _get_index(),
\* index.query in the namespace ticker.upper(), and the formatting of the
\* matches; the store answers with its n best matches
Retrieve(r, n) ==
    LET e == engine[r]
        fresh == engines[e].index = None
        client == IF fresh
                  THEN _get_pinecone_client(engines[e].pinecone_client,
                                            built.pinecone_client)
                  ELSE engines[e].pinecone_client
        idx == _get_index(engines[e].index, built.index)
        ticker == upper(TaskRequest(r).ticker)
        ns == Namespace(ticker)
        found == Query(ns, top_k_results, n)
    IN
    [engines |-> [engines EXCEPT ![e].pinecone_client = client, ![e].index = idx],
     built |-> [built EXCEPT !.pinecone_client = Max(@, client), !.index = Max(@, idx)],
     obs |-> [obs EXCEPT ![r].pinecone_client = IF fresh THEN client ELSE @,
                         ![r].index = idx],
     ticker |-> ticker,
     namespace |-> ns,
     matches |-> found,
     contexts |-> FormatResults(found)]

\* MUTANT of YieldContexts: the contexts line is not yielded before the tokens
YieldContextsOmitted(r, n) ==
    /\ pc[r] = "await_embed"
    /\ request[r].path = "stream"
    /\ LET ret == Retrieve(r, n) IN
       /\ engines' = ret.engines
       /\ built' = ret.built
       /\ obs' = ret.obs
       /\ contexts' = [contexts EXCEPT ![r] = ret.contexts]
       /\ namespace' = [namespace EXCEPT ![r] = ret.namespace]
       /\ matches' = [matches EXCEPT ![r] = ret.matches]
       /\ messages' = [messages EXCEPT ![r] =
                          StreamMessages(ret.contexts, ret.ticker,
                                         TaskRequest(r).history, TaskRequest(r).message)]
    /\ calls' = [calls EXCEPT ![r].search = @ + 1]
    /\ trace' = [trace EXCEPT ![r] = @ \o << "embed_ok", "search", "search_ok" >>]
    /\ pc' = [pc EXCEPT ![r] = "yield_contexts"]
    /\ UNCHANGED << settings, rag_engine, request, status, engine, events, frags,
                    gen, cancelled, result >>

\* generate_response_stream from the embedding's arrival to its first yield:
\* retrieval, the prompt, and the contexts line
YieldContexts(r, n) ==
    /\ pc[r] = "await_embed"
    /\ request[r].path = "stream"
    /\ LET ret == Retrieve(r, n) IN
       /\ engines' = ret.engines
       /\ built' = ret.built
       /\ obs' = ret.obs
       /\ contexts' = [contexts EXCEPT ![r] = ret.contexts]
       /\ events' = [events EXCEPT ![r] = Append(@, ContextsEvent(ret.contexts))]
       /\ namespace' = [namespace EXCEPT ![r] = ret.namespace]
       /\ matches' = [matches EXCEPT ![r] = ret.matches]
       /\ messages' = [messages EXCEPT ![r] =
                          StreamMessages(ret.contexts, ret.ticker,
                                         TaskRequest(r).history, TaskRequest(r).message)]
    /\ calls' = [calls EXCEPT ![r].search = @ + 1]
    /\ trace' = [trace EXCEPT ![r] =
                    @ \o << "embed_ok", "search", "search_ok", "contexts" >>]
    /\ pc' = [pc EXCEPT ![r] = "yield_contexts"]
    /\ UNCHANGED << settings, rag_engine, request, status, engine, frags, gen,
                    cancelled, result >>

\* MUTANT of StartGeneration: with no contexts the model is not asked and the
\* stream is ended at once
StartGenerationIfContexts(r) ==
    /\ pc[r] = "yield_contexts"
    /\ IF contexts[r] = <<>>
       THEN /\ events' = [events EXCEPT ![r] = Append(@, DoneEvent)]
            /\ pc' = [pc EXCEPT ![r] = "yield_done"]
            /\ UNCHANGED << engines, built, obs, calls, gen, trace >>
       ELSE /\ LET e == engine[r]
                   h == _get_llm(engines[e].llm, built.llm)
               IN
               /\ engines' = [engines EXCEPT ![e].llm = h]
               /\ built' = [built EXCEPT !.llm = Max(@, h)]
               /\ obs' = [obs EXCEPT ![r].llm = h]
            /\ calls' = [calls EXCEPT ![r].llm = @ + 1]
            /\ gen' = [gen EXCEPT ![r] = "streaming"]
            /\ trace' = [trace EXCEPT ![r] = Append(@, "llm")]
            /\ pc' = [pc EXCEPT ![r] = "await_chunk"]
            /\ UNCHANGED events
    /\ UNCHANGED << settings, rag_engine, request, status, engine, contexts,
                    frags, cancelled, result, namespace, matches, messages >>

\* the consumer asks for the next line: _get_llm(), llm.astream(messages),
\* and the generator waits for the first chunk
StartGeneration(r) ==
    /\ pc[r] = "yield_contexts"
    /\ LET e == engine[r]
           h == _get_llm(engines[e].llm, built.llm)
       IN
       /\ engines' = [engines EXCEPT ![e].llm = h]
       /\ built' = [built EXCEPT !.llm = Max(@, h)]
       /\ obs' = [obs EXCEPT ![r].llm = h]
    /\ calls' = [calls EXCEPT ![r].llm = @ + 1]
    /\ gen' = [gen EXCEPT ![r] = "streaming"]
    /\ trace' = [trace EXCEPT ![r] = Append(@, "llm")]
    /\ pc' = [pc EXCEPT ![r] = "await_chunk"]
    /\ UNCHANGED << settings, rag_engine, request, status, engine, contexts,
                    events, frags, cancelled, result, namespace, matches, messages >>

\* the model produces a chunk with content c: it is yielded as a token line
\* when c is not empty, and the loop waits for the next chunk otherwise
ChunkArrives(r, c) ==
    /\ pc[r] = "await_chunk"
    /\ Len(frags[r]) < MaxFrags
    /\ frags' = [frags EXCEPT ![r] = Append(@, c)]
    /\ IF Forwarded(c)
       THEN /\ events' = [events EXCEPT ![r] = Append(@, TokenEvent(c))]
            /\ pc' = [pc EXCEPT ![r] = "yield_token"]
       ELSE UNCHANGED << events, pc >>
    /\ UNCHANGED << settings, rag_engine, engines, built, request, status, engine,
                    obs, calls, contexts, gen, cancelled, result,
                    namespace, matches, messages, trace >>

\* the consumer asks for the next line after a token line
NextChunk(r) ==
    /\ pc[r] = "yield_token"
    /\ pc' = [pc EXCEPT ![r] = "await_chunk"]
    /\ UNCHANGED << settings, rag_engine, engines, built, request, status, engine,
                    obs, calls, contexts, events, frags, gen, cancelled, result,
                    namespace, matches, messages, trace >>

\* the model signals the end of its output: the loop ends, done is yielded
StreamEnds(r) ==
    /\ pc[r] = "await_chunk"
    /\ gen' = [gen EXCEPT ![r] = "ended"]
    /\ events' = [events EXCEPT ![r] = Append(@, DoneEvent)]
    /\ pc' = [pc EXCEPT ![r] = "yield_done"]
    /\ UNCHANGED << settings, rag_engine, engines, built, request, status, engine,
                    obs, calls, contexts, frags, cancelled, result,
                    namespace, matches, messages, trace >>

\* MUTANT of StreamFails: done is yielded on the way out of a failed stream
StreamFailsWithDone(r) ==
    /\ pc[r] = "await_chunk"
    /\ gen' = [gen EXCEPT ![r] = "failed"]
    /\ events' = [events EXCEPT ![r] = Append(@, DoneEvent)]
    /\ pc' = [pc EXCEPT ![r] = "yield_done"]
    /\ UNCHANGED << settings, rag_engine, engines, built, request, status, engine,
                    obs, calls, contexts, frags, cancelled, result,
                    namespace, matches, messages, trace >>

\* astream raises (at invocation or between chunks): nothing catches it, the
\* generator dies and the body of the response ends there
StreamFails(r) ==
    /\ pc[r] = "await_chunk"
    /\ gen' = [gen EXCEPT ![r] = "failed"]
    /\ pc' = [pc EXCEPT ![r] = "failed"]
    /\ UNCHANGED << settings, rag_engine, engines, built, request, status, engine,
                    obs, calls, contexts, events, frags, cancelled, result,
                    namespace, matches, messages, trace >>

\* MUTANT of Finish: done is yielded inside the loop, which goes on
FinishRestarts(r) ==
    /\ pc[r] = "yield_done"
    /\ pc' = [pc EXCEPT ![r] = "await_chunk"]
    /\ UNCHANGED << settings, rag_engine, engines, built, request, status, engine,
                    obs, calls, contexts, events, frags, gen, cancelled, result,
                    namespace, matches, messages, trace >>

\* the consumer asks for the next line after done: the generator returns
Finish(r) ==
    /\ pc[r] = "yield_done"
    /\ pc' = [pc EXCEPT ![r] = "finished"]
    /\ UNCHANGED << settings, rag_engine, engines, built, request, status, engine,
                    obs, calls, contexts, events, frags, gen, cancelled, result,
                    namespace, matches, messages, trace >>

\* the caller disconnects: the response closes the generator where it is
\* suspended
Cancel(r) ==
    /\ request[r].path = "stream"
    /\ pc[r] \in StreamPoints
    /\ ~cancelled[r]
    /\ cancelled' = [cancelled EXCEPT ![r] = TRUE]
    /\ pc' = [pc EXCEPT ![r] = OnCancel(pc[r])]
    /\ UNCHANGED << settings, rag_engine, engines, built, request, status, engine,
                    obs, calls, contexts, events, frags, gen, result,
                    namespace, matches, messages, trace >>

\* generate_response from the embedding's arrival to its await on the model:
\* retrieval, the prompt, _get_llm() and llm.ainvoke(messages)
InvokeSync(r, n) ==
    /\ pc[r] = "await_embed"
    /\ request[r].path = "sync"
    /\ LET ret == Retrieve(r, n)
           e == engine[r]
           h == _get_llm(ret.engines[e].llm, ret.built.llm)
       IN
       /\ engines' = [ret.engines EXCEPT ![e].llm = h]
       /\ built' = [ret.built EXCEPT !.llm = Max(@, h)]
       /\ obs' = [ret.obs EXCEPT ![r].llm = h]
       /\ contexts' = [contexts EXCEPT ![r] = ret.contexts]
       /\ namespace' = [namespace EXCEPT ![r] = ret.namespace]
       /\ matches' = [matches EXCEPT ![r] = ret.matches]
       /\ messages' = [messages EXCEPT ![r] =
                          SyncMessages(ret.contexts, ret.ticker,
                                       TaskRequest(r).history, TaskRequest(r).message)]
    /\ calls' = [calls EXCEPT ![r].search = @ + 1, ![r].llm = @ + 1]
    /\ trace' = [trace EXCEPT ![r] = @ \o << "embed_ok", "search", "search_ok", "llm" >>]
    /\ gen' = [gen EXCEPT ![r] = "invoked"]
    /\ pc' = [pc EXCEPT ![r] = "await_llm"]
    /\ UNCHANGED << settings, rag_engine, request, status, engine, events, frags,
                    cancelled, result >>

\* MUTANT of SyncReturns: the ticker of the answer is the one of the body
SyncReturnsRawTicker(r, text) ==
    /\ pc[r] = "await_llm"
    /\ gen' = [gen EXCEPT ![r] = "ended"]
    /\ frags' = [frags EXCEPT ![r] = text]
    /\ result' = [result EXCEPT ![r] = [response |-> text,
                                        contexts |-> contexts[r],
                                        ticker |-> TaskRequest(r).ticker]]
    /\ status' = [status EXCEPT ![r] = 200]
    /\ pc' = [pc EXCEPT ![r] = "finished"]
    /\ UNCHANGED << settings, rag_engine, engines, built, request, engine, obs,
                    calls, contexts, events, cancelled,
                    namespace, matches, messages, trace >>

\* ainvoke returns the full text: generate_response returns its dict and the
\* handler answers with the ChatResponse made of it
SyncReturns(r, text) ==
    /\ pc[r] = "await_llm"
    /\ gen' = [gen EXCEPT ![r] = "ended"]
    /\ frags' = [frags EXCEPT ![r] = text]
    /\ result' = [result EXCEPT ![r] = [response |-> text,
                                        contexts |-> contexts[r],
                                        ticker |-> upper(TaskRequest(r).ticker)]]
    /\ status' = [status EXCEPT ![r] = 200]
    /\ pc' = [pc EXCEPT ![r] = "finished"]
    /\ UNCHANGED << settings, rag_engine, engines, built, request, engine, obs,
                    calls, contexts, events, cancelled,
                    namespace, matches, messages, trace >>

\* ainvoke raises: the handler ends with an unhandled exception
SyncFails(r) ==
    /\ pc[r] = "await_llm"
    /\ gen' = [gen EXCEPT ![r] = "failed"]
    /\ status' = [status EXCEPT ![r] = 500]
    /\ pc' = [pc EXCEPT ![r] = "failed"]
    /\ UNCHANGED << settings, rag_engine, engines, built, request, engine, obs,
                    calls, contexts, events, frags, cancelled, result,
                    namespace, matches, messages, trace >>

(* --------------------------- specifications --------------------------- *)
\* one request, every input and every outcome of the three services
Next ==
    \E r \in Reqs :
        \/ RejectInvalid(r)
        \/ chat_stream(r)
        \/ chat_sync(r)
        \/ StartStream(r)
        \/ EmbedFails(r)
        \/ \E kind \in {"index", "query"} : SearchFails(r, kind)
        \/ \E n \in 0..MaxMatches : YieldContexts(r, n)
        \/ \E n \in 0..MaxMatches : InvokeSync(r, n)
        \/ StartGeneration(r)
        \/ \E c \in FragInputs : ChunkArrives(r, c)
        \/ NextChunk(r)
        \/ StreamEnds(r)
        \/ StreamFails(r)
        \/ Finish(r)
        \/ Cancel(r)
        \/ \E text \in TextInputs : SyncReturns(r, text)
        \/ SyncFails(r)

Spec == Init /\ [][Next]_vars

\* NumReqs requests in flight at once on the shared engine, interleaved at
\* every suspension point
NextConc ==
    \E r \in Reqs :
        \/ RejectInvalid(r)
        \/ chat_stream(r)
        \/ chat_sync(r)
        \/ StartStream(r)
        \/ EmbedFails(r)
        \/ SearchFails(r, "index")
        \/ \E n \in {0, 1} : YieldContexts(r, n)
        \/ \E n \in {0, 1} : InvokeSync(r, n)
        \/ StartGeneration(r)
        \/ \E c \in ConcFragInputs : ChunkArrives(r, c)
        \/ NextChunk(r)
        \/ StreamEnds(r)
        \/ StreamFails(r)
        \/ Finish(r)
        \/ Cancel(r)
        \/ \E text \in ConcTextInputs : SyncReturns(r, text)

SpecConc == InitConc /\ [][NextConc]_vars

\* NumReqs answered requests for different tickers in flight at once
NextIso ==
    \E r \in Reqs :
        \/ chat_stream(r)
        \/ chat_sync(r)
        \/ StartStream(r)
        \/ YieldContexts(r, MaxMatches)
        \/ InvokeSync(r, MaxMatches)
        \/ StartGeneration(r)
        \/ \E c \in ConcFragInputs : ChunkArrives(r, c)
        \/ NextChunk(r)
        \/ StreamEnds(r)
        \/ Finish(r)
        \/ \E text \in IsoTextInputs : SyncReturns(r, text)

SpecIso == InitIso /\ [][NextIso]_vars

(* ============================ properties ============================== *)
Streams == { r \in Reqs : request[r].path = "stream" }
Syncs == { r \in Reqs : request[r].path = "sync" }

IsContexts(e) == e.type = "contexts"
IsToken(e) == e.type = "token"
IsDone(e) == e.type = "done"

Positions(r, Test(_)) == { i \in 1..Len(events[r]) : Test(events[r][i]) }

HasDone(r) == Positions(r, IsDone) # {}

\* the data of the token lines of a stream, in the order they were yielded
TokenTexts(r) ==
    LET toks == SelectSeq(events[r], IsToken) IN [i \in 1..Len(toks) |-> toks[i].text]

NonEmpty(c) == c # ""

\* the search of a task was answered (it did not raise)
SearchAnswered(r) == calls[r].search = 1 /\ ~(pc[r] = "failed" /\ gen[r] = "idle")

\* the task failed in embedding or retrieval, before the generator was reached
FailedBeforeGeneration(r) == pc[r] = "failed" /\ gen[r] = "idle"

(* C1: in every run of generate_response_stream that has emitted at least one
   event, the first event is a contexts event, exactly one contexts event has
   been emitted, and so no token event precedes it. *)
C1_ContextsFirst ==
    \A r \in Streams :
        Len(events[r]) > 0 =>
            /\ IsContexts(events[r][1])
            /\ Positions(r, IsContexts) = {1}
            /\ \A i \in Positions(r, IsToken) : i > 1

C1_Witness ==
    \E r \in Streams :
        /\ pc[r] = "finished"
        /\ Positions(r, IsToken) # {}
        /\ HasDone(r)

(* C2 (the claim as the specification states it): every streaming run that is
   over and has emitted an event ends with exactly one terminal event as its
   last event, also when the generator failed after the contexts event. *)
C2_AlwaysTerminated ==
    \A r \in Streams :
        (pc[r] \in {"finished", "failed"} /\ Len(events[r]) > 0) =>
            /\ Cardinality(Positions(r, IsDone)) = 1
            /\ IsDone(events[r][Len(events[r])])

(* C3: a streaming run emits at most one terminal event, and a done event is
   the last event of its run: no contexts, token or done event follows it. *)
C3_NothingAfterDone ==
    \A r \in Streams :
        /\ Cardinality(Positions(r, IsDone)) <= 1
        /\ \A i \in Positions(r, IsDone) : i = Len(events[r])

C3_Witness ==
    \E r \in Streams :
        /\ pc[r] = "finished"
        /\ HasDone(r)
        /\ Len(events[r]) >= 3

(* C4: on both endpoints a request (a body that is a ChatRequest, so with a
   message that is not empty) whose upper-cased ticker is not in
   supported_tickers is rejected with status 400 once its handler has run, and
   no embedding, search or language-model call is ever made for it. *)
C4_UnsupportedRejected ==
    \A r \in Reqs :
        (request[r].message # "" /\ upper(request[r].ticker) \notin supported_tickers) =>
            /\ calls[r] = [embed |-> 0, search |-> 0, llm |-> 0]
            /\ pc[r] \in {"start", "rejected"}
            /\ pc[r] = "rejected" => status[r] = 400
            /\ pc[r] = "start" => status[r] = None

C4_Witness ==
    \E r1 \in Streams, r2 \in Syncs :
        /\ upper(request[r1].ticker) \notin supported_tickers
        /\ upper(request[r2].ticker) \notin supported_tickers
        /\ pc[r1] = "rejected"
        /\ pc[r2] = "rejected"
        /\ status[r1] = 400
        /\ status[r2] = 400

(* C5: when the search is answered with zero matches the pipeline does not
   fail.  The stream starts with a contexts event whose data is empty, the
   generator is invoked as soon as the consumer resumes, only a failure of the
   generator itself can fail the run, and a generator that ends normally ends
   the stream with done.  The synchronous path has invoked the generator and
   returns a result with an empty contexts list. *)
C5_ZeroMatchesProceed ==
    \A r \in Reqs :
        (SearchAnswered(r) /\ contexts[r] = <<>>) =>
            /\ pc[r] = "failed" => gen[r] = "failed"
            /\ r \in Streams =>
                /\ events[r][1] = ContextsEvent(<<>>)
                /\ pc[r] = "yield_contexts" => ENABLED StartGeneration(r)
                /\ pc[r] \in {"await_chunk", "yield_token", "yield_done", "finished"}
                      => calls[r].llm = 1
                /\ gen[r] = "ended" => IsDone(events[r][Len(events[r])])
            /\ r \in Syncs =>
                /\ calls[r].llm = 1
                /\ pc[r] = "finished" =>
                      (result[r].contexts = <<>> /\ status[r] = 200)

C5_Witness ==
    \E r1 \in Streams, r2 \in Syncs :
        /\ SearchAnswered(r1) /\ SearchAnswered(r2)
        /\ contexts[r1] = <<>> /\ contexts[r2] = <<>>
        /\ pc[r1] = "finished" /\ pc[r2] = "finished"
        /\ Positions(r1, IsToken) # {}

(* C6: once the caller has closed the stream, the run emits no further event,
   takes no further fragment from the generator and makes no further external
   call; and the closing itself changes nothing in the shared engine (no
   handle, no engine, nothing per request is written). *)
C6_CancelStops ==
    [][\A r \in Streams :
          /\ cancelled[r] =>
                /\ events'[r] = events[r]
                /\ frags'[r] = frags[r]
                /\ calls'[r] = calls[r]
                /\ cancelled'[r]
          /\ (~cancelled[r] /\ cancelled'[r]) =>
                /\ events'[r] = events[r]
                /\ frags'[r] = frags[r]
                /\ calls'[r] = calls[r]
                /\ engines' = engines
                /\ rag_engine' = rag_engine
                /\ built' = built]_vars

C6_Witness ==
    \E r \in Streams :
        /\ cancelled[r]
        /\ gen[r] = "streaming"
        /\ Positions(r, IsToken) # {}

(* C7: under every interleaving of the requests at their suspension points, at
   most one RAGEngine and at most one instance of each client handle is ever
   constructed, and every task that was handed an engine or a handle was
   handed that same instance, the one the shared engine holds. *)
C7_ConstructedOnce ==
    /\ \A k \in Kinds : built[k] <= 1
    /\ Len(engines) <= 1
    /\ \A r \in Reqs :
          /\ obs[r].engine # None => obs[r].engine = rag_engine
          /\ \A k \in Kinds \ {"engine"} :
                obs[r][k] # None => obs[r][k] = engines[rag_engine][k]
    /\ \A r1, r2 \in Reqs : \A k \in Kinds :
          (obs[r1][k] # None /\ obs[r2][k] # None) => obs[r1][k] = obs[r2][k]

C7_Witness ==
    \E r1, r2 \in Reqs :
        /\ r1 # r2
        /\ \A k \in Kinds \ {"pinecone_client"} : obs[r1][k] # None /\ obs[r2][k] # None
        /\ obs[r1].pinecone_client # None \/ obs[r2].pinecone_client # None
        /\ pc[r1] \in {"await_chunk", "yield_token"}
        /\ pc[r2] = "await_llm"

(* C8 (the claim as the specification states it): the token events of a stream
   are exactly the fragments the generator produced, one event per fragment
   in generation order. *)
C8_TokenPerFragment ==
    \A r \in Streams : TokenTexts(r) = frags[r]

(* C8 (amended): the token events of a stream are exactly the fragments with
   non-empty content the generator produced, in generation order, all of them
   after the contexts event; a fragment with empty content yields no event. *)
C8_TokenPerNonEmptyFragment ==
    \A r \in Streams :
        /\ TokenTexts(r) = SelectSeq(frags[r], NonEmpty)
        /\ \A i \in Positions(r, IsToken) : i > 1 /\ IsContexts(events[r][1])

C8_Witness ==
    \E r \in Streams :
        /\ pc[r] = "finished"
        /\ Len(frags[r]) = 2
        /\ frags[r][1] = ""
        /\ Len(TokenTexts(r)) = 1

(* C9 (the claim as the specification states it): a streaming request whose
   embedding call or search fails has emitted no event, has not invoked the
   generator, and its response was not started as a success. *)
C9_EarlyFailureIsErrorResult ==
    \A r \in Streams :
        FailedBeforeGeneration(r) =>
            /\ events[r] = <<>>
            /\ calls[r].llm = 0
            /\ status[r] # 200

(* C10: a done event is in the stream only if the generator has signalled the
   end of its output (it did not fail) and every fragment with non-empty
   content was forwarded as a token event before it; and a run whose generator
   has failed or whose caller has closed the stream emits no done event. *)
C10_DoneMeansFinished ==
    /\ [](\A r \in Streams :
            HasDone(r) =>
                /\ gen[r] = "ended"
                /\ TokenTexts(r) = SelectSeq(frags[r], NonEmpty)
                /\ \A i \in Positions(r, IsToken) : \A j \in Positions(r, IsDone) : i < j)
    /\ [][\A r \in Streams :
            (gen[r] = "failed" \/ cancelled[r]) => (HasDone(r)' => HasDone(r))]_vars

C10_Witness ==
    \E r \in Streams :
        /\ HasDone(r)
        /\ Len(frags[r]) = 2
        /\ frags[r][2] = ""
        /\ Len(TokenTexts(r)) = 1

\* the positions of the turns of a history whose role is user or assistant
KeptTurns(h) == { i \in 1..Len(h) : h[i].role \in {"user", "assistant"} }

\* the place among the kept turns of the turn at position i
Rank(h, i) == Cardinality({ j \in KeptTurns(h) : j <= i })

\* the part of the messages handed to the generator that came from the history
FormattedHistory(r) == SubSeq(messages[r], 2, Len(messages[r]) - 1)

(* C11: the formatted history holds, in the original relative order, one human
   message for each turn with role user and one assistant message for each turn
   with role assistant, each with the content of its turn; turns with another
   role or with none are dropped, so its length is the number of user and
   assistant turns. *)
C11_HistoryFormatted ==
    \A r \in Reqs :
        messages[r] # <<>> =>
            LET h == request[r].history
                out == FormattedHistory(r)
            IN
            /\ Len(out) = Cardinality(KeptTurns(h))
            /\ \A i \in KeptTurns(h) :
                /\ out[Rank(h, i)].content = h[i].content
                /\ h[i].role = "user" => out[Rank(h, i)].type = "human"
                /\ h[i].role = "assistant" => out[Rank(h, i)].type = "ai"

C11_Witness ==
    \E r \in Reqs :
        /\ messages[r] # <<>>
        /\ Len(request[r].history) = 2
        /\ request[r].history[1].role \notin {"user", "assistant"}
        /\ request[r].history[2].role = "user"
        /\ Len(FormattedHistory(r)) = 1

\* the context blocks of the system message handed to the generator
PromptBlocks(r) == messages[r][1].blocks

(* C12: the system prompt holds the passages in their retrieval order: it has
   as many [Source: section_header | Year: year] blocks as passages were
   retrieved and its i-th block carries the header, year and text of the i-th
   passage, so no passage is omitted, duplicated or reordered. *)
C12_PromptInRetrievalOrder ==
    \A r \in Reqs :
        messages[r] # <<>> =>
            /\ messages[r][1].type = "system"
            /\ Len(PromptBlocks(r)) = Len(contexts[r])
            /\ \A i \in 1..Len(contexts[r]) :
                /\ PromptBlocks(r)[i].section_header = contexts[r][i].section_header
                /\ PromptBlocks(r)[i].year = contexts[r][i].year
                /\ PromptBlocks(r)[i].text_content = contexts[r][i].text_content

C12_Witness ==
    \E r \in Reqs :
        /\ messages[r] # <<>>
        /\ Len(contexts[r]) = 2
        /\ Len(PromptBlocks(r)) = 2
        /\ PromptBlocks(r)[1].section_header # PromptBlocks(r)[2].section_header

\* a sequence of matches or of passages is in non-increasing order of score
SortedByScore(seq) ==
    \A i, j \in 1..Len(seq) : i < j => seq[i].score >= seq[j].score

(* C13: the passages returned by retrieve_context, which are the data of the
   contexts event of a stream, are one per match the store returned, in the
   order of the store and with its ids and scores; so there are as many as
   matches, at most top_k_results, and they are in non-increasing order of
   score when the matches of the store are. *)
C13_OnePassagePerMatch ==
    \A r \in Reqs :
        SearchAnswered(r) =>
            /\ Len(contexts[r]) = Len(matches[r])
            /\ Len(matches[r]) <= top_k_results
            /\ \A i \in 1..Len(matches[r]) :
                /\ contexts[r][i].id = matches[r][i].id
                /\ contexts[r][i].score = matches[r][i].score
            /\ SortedByScore(matches[r]) => SortedByScore(contexts[r])
            /\ r \in Streams =>
                /\ Len(events[r]) >= 1
                /\ IsContexts(events[r][1])
                /\ events[r][1].data = contexts[r]

C13_Witness ==
    \E r \in Streams :
        /\ SearchAnswered(r)
        /\ Len(matches[r]) = 2
        /\ matches[r][1].score > matches[r][2].score
        /\ events[r][1].data = contexts[r]
        /\ Len(events[r][1].data) = 2

(* C14: every search is made in the namespace that is the upper-cased ticker
   of the request it serves, which is one of supported_tickers, and every
   match it returns comes from that namespace, whatever the casing of the
   ticker in the request. *)
C14_OwnNamespace ==
    \A r \in Reqs :
        calls[r].search >= 1 =>
            /\ namespace[r] = upper(request[r].ticker)
            /\ namespace[r] \in supported_tickers
            /\ \A i \in 1..Len(matches[r]) : matches[r][i].namespace = namespace[r]

C14_Witness ==
    \E r \in Reqs :
        /\ calls[r].search = 1
        /\ request[r].ticker # upper(request[r].ticker)
        /\ namespace[r] = MSFT
        /\ Len(matches[r]) >= 1

(* C15: a synchronous request that succeeds answers 200 with one value whose
   response is the full text the generator returned, whose contexts are the
   passages retrieved for this request (one per match of its own search) and
   whose ticker is the upper-cased, supported ticker of this request. *)
C15_SyncResult ==
    \A r \in Syncs :
        pc[r] = "finished" =>
            /\ status[r] = 200
            /\ result[r].response = frags[r]
            /\ result[r].contexts = contexts[r]
            /\ Len(result[r].contexts) = Len(matches[r])
            /\ \A i \in 1..Len(matches[r]) : result[r].contexts[i].id = matches[r][i].id
            /\ result[r].ticker = upper(request[r].ticker)
            /\ result[r].ticker \in supported_tickers

C15_Witness ==
    \E r \in Syncs :
        /\ pc[r] = "finished"
        /\ request[r].ticker # upper(request[r].ticker)
        /\ Len(result[r].response) = 2
        /\ Len(result[r].contexts) = 2
        /\ result[r].ticker = AAPL

\* no embedding, search or generation call was made for a request
NoCalls(r) == calls[r] = [embed |-> 0, search |-> 0, llm |-> 0] /\ trace[r] = <<>>

\* one of the two credentials is not configured
CredentialMissing == settings.openai_api_key = "" \/ settings.pinecone_api_key = ""

(* C16: on both endpoints a request for a supported ticker made while the
   OpenAI or the Pinecone credential is not configured is rejected with status
   500 and no embedding, search or generation call is ever made for it; the
   ticker is checked first, so a request for an unsupported ticker is rejected
   with 400 also when a credential is missing. *)
C16_MissingCredentialRejected ==
    \A r \in Reqs :
        (request[r].message # "" /\ CredentialMissing) =>
            /\ NoCalls(r)
            /\ pc[r] \in {"start", "rejected"}
            /\ pc[r] = "rejected" =>
                IF upper(request[r].ticker) \in supported_tickers
                THEN status[r] = 500
                ELSE status[r] = 400

C16_Witness ==
    \E r1 \in Streams, r2 \in Syncs :
        /\ CredentialMissing
        /\ upper(request[r1].ticker) \in supported_tickers
        /\ upper(request[r2].ticker) \notin supported_tickers
        /\ pc[r1] = "rejected"
        /\ pc[r2] = "rejected"
        /\ status[r1] = 500
        /\ status[r2] = 400

(* C17: a request whose message is empty is rejected with a client error
   (a 4xx status) before its handler runs, on the streaming and on the
   synchronous endpoint alike: no embedding, search or generation call is
   ever made for it. *)
C17_EmptyQueryRejected ==
    \A r \in Reqs :
        request[r].message = "" =>
            /\ NoCalls(r)
            /\ pc[r] \in {"start", "invalid"}
            /\ pc[r] = "invalid" => status[r] \in 400..499
            /\ pc[r] = "start" => status[r] = None
            /\ events[r] = <<>>
            /\ result[r] = NoResult

C17_Witness ==
    \E r1 \in Streams, r2 \in Syncs :
        /\ request[r1].message = ""
        /\ request[r2].message = ""
        /\ pc[r1] = "invalid"
        /\ pc[r2] = "invalid"
        /\ status[r1] = 422
        /\ status[r2] = 422

\* the calls and emissions of one query, in the order the code makes them
StreamOrder == << "embed", "embed_ok", "search", "search_ok", "contexts", "llm" >>
SyncOrder == << "embed", "embed_ok", "search", "search_ok", "llm" >>

IsPrefix(s, t) == Len(s) <= Len(t) /\ s = SubSeq(t, 1, Len(s))

(* C18: within one query, on both paths, the external calls are made in the
   order embed, search, generate and each at most once; the search is made
   only after the embedding was returned and the generator is invoked only
   after the search was answered; on the streaming path the contexts event is
   emitted before the generator is invoked. *)
C18_CallOrder ==
    \A r \in Reqs :
        /\ r \in Streams => IsPrefix(trace[r], StreamOrder)
        /\ r \in Syncs => IsPrefix(trace[r], SyncOrder)
        /\ calls[r].embed <= 1
        /\ calls[r].search <= 1
        /\ calls[r].llm <= 1
        /\ calls[r].search = 1 => calls[r].embed = 1
        /\ calls[r].llm = 1 => (calls[r].search = 1 /\ SearchAnswered(r))
        /\ (r \in Streams /\ calls[r].llm = 1) => Positions(r, IsContexts) = {1}

C18_Witness ==
    \E r \in Streams :
        /\ trace[r] = StreamOrder
        /\ calls[r] = [embed |-> 1, search |-> 1, llm |-> 1]
        /\ pc[r] = "finished"

\* everything the model keeps for one query
PerRequest(r) ==
    << request[r], pc[r], status[r], engine[r], obs[r], calls[r], contexts[r],
       events[r], frags[r], gen[r], cancelled[r], result[r], namespace[r],
       matches[r], messages[r], trace[r] >>

\* the stream of a query is built from the request of that query alone
BuiltFromOwnRequest(r) ==
    LET own == upper(request[r].ticker) IN
    events[r] # <<>> =>
        /\ namespace[r] = own
        /\ matches[r] = Query(own, top_k_results, Len(matches[r]))
        /\ events[r][1].data = FormatResults(matches[r])
        /\ \A i \in 1..Len(events[r][1].data) : events[r][1].data[i].id.ticker = own
        /\ messages[r] = StreamMessages(events[r][1].data, own, request[r].history,
                                        request[r].message)
        /\ IsPrefix(TokenTexts(r), SelectSeq(frags[r], NonEmpty))

\* contexts first and once, then tokens, then at most one done, which is last
OrderedStream(r) ==
    /\ events[r] # <<>> => Positions(r, IsContexts) = {1}
    /\ \A i \in Positions(r, IsDone) : i = Len(events[r])
    /\ \A i \in 2..Len(events[r]) : IsToken(events[r][i]) \/ IsDone(events[r][i])

\* a step touches the state of one query only
OneQueryPerStep == \E r \in Reqs : \A q \in Reqs \ {r} : PerRequest(q)' = PerRequest(q)

\* a query never takes up a handle that was there before its step, that is,
\* one that another query constructed
NoForeignRead ==
    \A r \in Reqs : \A k \in Kinds :
        (obs[r][k] = None /\ obs'[r][k] # None) => obs'[r][k] > built[k]

(* C19 as stated: with several queries in flight on the shared engine each
   stream is built from its own request only and is ordered on its own, and no
   state written by one query is read by another. *)
C19_NoStateShared ==
    /\ [](\A r \in Streams : BuiltFromOwnRequest(r) /\ OrderedStream(r))
    /\ [][OneQueryPerStep /\ NoForeignRead]_vars

(* C19 amended: with several queries in flight on the shared engine,
   interleaved at every await, each stream is built from its own request only
   (its contexts are the passages found in its own namespace, its tokens are
   fragments of its own generation, its messages come from its own history and
   message), each stream is ordered contexts, tokens, terminal on its own, and
   a step of one query changes nothing that is kept for another; what one query
   writes and another reads is only the engine and its lazily constructed
   handles, the same for all. *)
C19_OwnRequestOnly ==
    /\ [](\A r \in Streams : BuiltFromOwnRequest(r) /\ OrderedStream(r))
    /\ [](\A r1, r2 \in Reqs : \A k \in Kinds :
            (obs[r1][k] # None /\ obs[r2][k] # None) => obs[r1][k] = obs[r2][k])
    /\ [][OneQueryPerStep]_vars

C19_Witness ==
    \E r1, r2 \in Streams :
        /\ namespace[r1] = AAPL
        /\ namespace[r2] = MSFT
        /\ Len(TokenTexts(r1)) = 2
        /\ Len(TokenTexts(r2)) = 1
        /\ ~HasDone(r1)
        /\ ~HasDone(r2)
        /\ obs[r1].llm = obs[r2].llm
        /\ obs[r1].llm # None

\* a stream and a blocking call were made for the same ticker, message and
\* history and their searches returned the same matches
SameQuery(r1, r2) ==
    /\ messages[r1] # <<>>
    /\ messages[r2] # <<>>
    /\ upper(request[r1].ticker) = upper(request[r2].ticker)
    /\ request[r1].message = request[r2].message
    /\ request[r1].history = request[r2].history
    /\ matches[r1] = matches[r2]

\* the text of a generation: its fragments are strings of at most one
\* character, so their concatenation is the sequence of the non-empty ones
FullText(fragments) == SelectSeq(fragments, NonEmpty)

(* C20: for the same ticker, message and history and the same retrieved
   passages the streaming and the synchronous path hand the generator the same
   messages: the system prompt first, then the formatted history in order, then
   the message of the request as the last human message.  The data of the
   contexts event are the contexts of the synchronous answer and, when both
   generations have ended with the same text, the data of the token events
   concatenated in order are the response of the synchronous answer. *)
C20_PathsEquivalent ==
    \A r1 \in Streams : \A r2 \in Syncs :
        SameQuery(r1, r2) =>
            /\ messages[r1] = messages[r2]
            /\ messages[r1][1].type = "system"
            /\ messages[r1][1].ticker = upper(request[r1].ticker)
            /\ messages[r1][1].blocks = [i \in 1..Len(contexts[r1]) |-> ContextBlock(contexts[r1][i])]
            /\ Len(messages[r1]) = Cardinality(KeptTurns(request[r1].history)) + 2
            /\ \A i \in KeptTurns(request[r1].history) :
                LET m == messages[r1][1 + Rank(request[r1].history, i)] IN
                /\ m.content = request[r1].history[i].content
                /\ m.type = IF request[r1].history[i].role = "user" THEN "human" ELSE "ai"
            /\ messages[r1][Len(messages[r1])] = HumanMessage(request[r1].message)
            /\ events[r1][1].data = contexts[r2]
            /\ pc[r2] = "finished" =>
                /\ events[r1][1].data = result[r2].contexts
                /\ (HasDone(r1) /\ FullText(frags[r1]) = FullText(frags[r2])) =>
                        FullText(TokenTexts(r1)) = result[r2].response

C20_Witness ==
    \E r1 \in Streams : \E r2 \in Syncs :
        /\ SameQuery(r1, r2)
        /\ HasDone(r1)
        /\ pc[r2] = "finished"
        /\ Len(messages[r1]) = 4
        /\ Len(contexts[r1]) = 2
        /\ Len(frags[r1]) = 2
        /\ FullText(frags[r1]) = FullText(frags[r2])
        /\ Len(result[r2].response) = 2

====
